---- MODULE Spec2Model ----
(***************************************************************************)
(* Model of the Google Photos metadata merger: the filename normaliser and *)
(* sidecar matcher and the merge run of main.py, and the date resolver and *)
(* the year/month archiver of arrange_photo.py.                            *)
(*                                                                         *)
(* File names are TLA+ strings; the regular expressions of the source are  *)
(* operators that scan the string the way Python's re module does          *)
(* (leftmost match first, non-overlapping, greedy).                        *)
(***************************************************************************)
EXTENDS Integers, Sequences, FiniteSets, TLC

None == "<none>"

\* a path is a directory and a file name; NoPath stands for Python's None
Path(dir, n) == [dir |-> dir, name |-> n]
NoPath == Path("", "")

(***************************************************************************)
(* Characters and elementary string functions (str methods of Python).    *)
(***************************************************************************)
Digits == {"0", "1", "2", "3", "4", "5", "6", "7", "8", "9"}

Letters ==
  {"a", "b", "c", "d", "e", "f", "g", "h", "i", "j", "k", "l", "m",
   "n", "o", "p", "q", "r", "s", "t", "u", "v", "w", "x", "y", "z",
   "A", "B", "C", "D", "E", "F", "G", "H", "I", "J", "K", "L", "M",
   "N", "O", "P", "Q", "R", "S", "T", "U", "V", "W", "X", "Y", "Z"}

\* the class \w of the re module
WordChars == Letters \cup Digits \cup {"_"}

\* the class \s of the re module (the names of the model hold no other blank)
SpaceChars == {" "}

Ch(s, i) == SubSeq(s, i, i)

From(s, i) == SubSeq(s, i, Len(s))

StartsWith(s, p) == Len(p) <= Len(s) /\ SubSeq(s, 1, Len(p)) = p

EndsWith(s, p) == Len(p) <= Len(s) /\ SubSeq(s, Len(s) - Len(p) + 1, Len(s)) = p

\* the operator "t in s" on strings
Contains(s, t) == \E i \in 1..(Len(s) - Len(t) + 1) : SubSeq(s, i, i + Len(t) - 1) = t

\* s[i:i+n] consists of n digits
AllDigits(s, i, n) == i + n - 1 <= Len(s) /\ \A k \in i..(i + n - 1) : Ch(s, k) \in Digits

\* length of the longest run of characters of class cls that starts at s[i]
RECURSIVE RunLen(_, _, _)
RunLen(s, i, cls) ==
  IF i <= Len(s) /\ Ch(s, i) \in cls THEN 1 + RunLen(s, i + 1, cls) ELSE 0

\* F(x), with x evaluated once, before F is applied to it
Apply(F(_), x) == CHOOSE r \in {F(v) : v \in {x}} : TRUE

\* int() of the decimal digits s[1..n]
RECURSIVE ToIntUpTo(_, _)
ToIntUpTo(s, n) ==
  IF n = 0 THEN 0
  ELSE 10 * ToIntUpTo(s, n - 1) + (CHOOSE d \in 0..9 : Ch("0123456789", d + 1) = Ch(s, n))

ToInt(s) == ToIntUpTo(s, Len(s))

\* str() of a natural number
RECURSIVE ToStr(_)
ToStr(n) == IF n < 10 THEN Ch("0123456789", n + 1) ELSE ToStr(n \div 10) \o Ch("0123456789", (n % 10) + 1)

\* str.lower()
LowerCh(c) ==
  LET U == "ABCDEFGHIJKLMNOPQRSTUVWXYZ"
      L == "abcdefghijklmnopqrstuvwxyz"
  IN  IF \E k \in 1..26 : Ch(U, k) = c THEN Ch(L, CHOOSE k \in 1..26 : Ch(U, k) = c) ELSE c

RECURSIVE LowerFrom(_, _)
LowerFrom(s, i) == IF i > Len(s) THEN "" ELSE LowerCh(Ch(s, i)) \o LowerFrom(s, i + 1)

Lower(s) == LowerFrom(s, 1)

(***************************************************************************)
(* pathlib: PurePath.suffix, PurePath.stem, PurePath.with_suffix           *)
(***************************************************************************)
\* str.rfind("."), 1-based, 0 when there is no dot
RECURSIVE RFindDot(_, _)
RFindDot(s, i) == IF i = 0 THEN 0 ELSE IF Ch(s, i) = "." THEN i ELSE RFindDot(s, i - 1)

\* the position of the dot that starts the suffix, 0 when the name has none
SuffixPos(name) ==
  LET i == RFindDot(name, Len(name))
  IN  IF 1 < i /\ i < Len(name) THEN i ELSE 0

Suffix(name) == IF SuffixPos(name) = 0 THEN "" ELSE From(name, SuffixPos(name))

Stem(name) == IF SuffixPos(name) = 0 THEN name ELSE SubSeq(name, 1, SuffixPos(name) - 1)

WithSuffix(name, suf) == Stem(name) \o suf

(***************************************************************************)
(* main.py: normalize_filename                                             *)
(***************************************************************************)
\* length of the match of \(\d+\) at s[i], 0 when it does not match there
NumberingAt(s, i) ==
  IF i <= Len(s) /\ Ch(s, i) = "("
  THEN LET n == RunLen(s, i + 1, Digits)
       IN  IF n > 0 /\ i + n + 1 <= Len(s) /\ Ch(s, i + n + 1) = ")" THEN n + 2 ELSE 0
  ELSE 0

\* re.sub(r"\(\d+\)", "", s), scanning from s[i]
RECURSIVE SubNumbering(_, _)
SubNumbering(s, i) ==
  IF i > Len(s) THEN ""
  ELSE IF NumberingAt(s, i) > 0 THEN SubNumbering(s, i + NumberingAt(s, i))
  ELSE Ch(s, i) \o SubNumbering(s, i + 1)

\* re.sub(<literal>$, "", s)
StripSuffix(s, suf) == IF EndsWith(s, suf) THEN SubSeq(s, 1, Len(s) - Len(suf)) ELSE s

\* length of the match of (\d{4})-(\d{2})-(\d{2})\s+(\d{2})\.(\d{2})\.(\d{2})
\* at s[i], 0 when it does not match there
DateFormatAt(s, i) ==
  IF /\ AllDigits(s, i, 4) /\ i + 10 <= Len(s)
     /\ Ch(s, i + 4) = "-" /\ AllDigits(s, i + 5, 2)
     /\ Ch(s, i + 7) = "-" /\ AllDigits(s, i + 8, 2)
     /\ RunLen(s, i + 10, SpaceChars) > 0
  THEN LET w == RunLen(s, i + 10, SpaceChars)
           j == i + 10 + w
       IN  IF /\ j + 7 <= Len(s)
              /\ AllDigits(s, j, 2) /\ Ch(s, j + 2) = "."
              /\ AllDigits(s, j + 3, 2) /\ Ch(s, j + 5) = "."
              /\ AllDigits(s, j + 6, 2)
           THEN 10 + w + 8 ELSE 0
  ELSE 0

\* the replacement \1\2\3_\4\5\6 of a match of length n at s[i]
DateFormatRepl(s, i, n) ==
  LET j == i + n - 8
  IN  SubSeq(s, i, i + 3) \o SubSeq(s, i + 5, i + 6) \o SubSeq(s, i + 8, i + 9) \o "_"
      \o SubSeq(s, j, j + 1) \o SubSeq(s, j + 3, j + 4) \o SubSeq(s, j + 6, j + 7)

RECURSIVE SubDateFormat(_, _)
SubDateFormat(s, i) ==
  IF i > Len(s) THEN ""
  ELSE IF DateFormatAt(s, i) > 0
       THEN DateFormatRepl(s, i, DateFormatAt(s, i)) \o SubDateFormat(s, i + DateFormatAt(s, i))
  ELSE Ch(s, i) \o SubDateFormat(s, i + 1)

\* re.sub of a one-character class: drops every character of cls, from s[i] on
RECURSIVE DropChars(_, _, _)
DropChars(s, i, cls) ==
  IF i > Len(s) THEN ""
  ELSE (IF Ch(s, i) \in cls THEN "" ELSE Ch(s, i)) \o DropChars(s, i + 1, cls)

\* re.sub(r"_+$", "", s[1..n])
RECURSIVE StripUnderscoresUpTo(_, _)
StripUnderscoresUpTo(s, n) ==
  IF n > 0 /\ Ch(s, n) = "_" THEN StripUnderscoresUpTo(s, n - 1) ELSE SubSeq(s, 1, n)

\* the seven substitutions of normalize_filename, in their order
KeepNumbering(s) == s   \* a normaliser that forgets line 14

RemoveNumbering(s) == SubNumbering(s, 1)
RemoveEdited(s) == StripSuffix(s, "-edited")
RemoveP(s) == StripSuffix(s, "_p")
CollapseDate(s) == SubDateFormat(s, 1)
RemoveSpaces(s) == DropChars(s, 1, SpaceChars)
RemoveDots(s) == DropChars(s, 1, {"."})
RemoveTrailingUnderscores(s) == StripUnderscoresUpTo(s, Len(s))

normalize_filename(name) ==
  Apply(RemoveTrailingUnderscores,
    Apply(RemoveDots,
      Apply(RemoveSpaces,
        Apply(CollapseDate,
          Apply(RemoveP,
            Apply(RemoveEdited,
              Apply(RemoveNumbering, name)))))))

(***************************************************************************)
(* main.py: find_json_for_photo                                            *)
(***************************************************************************)
\* re.sub(r"\(\d+\)$", "", s): the leftmost "(n)" group that ends the string
TrailingNumberingPos(s) ==
  LET P == {i \in 1..Len(s) : NumberingAt(s, i) > 0 /\ i + NumberingAt(s, i) - 1 = Len(s)}
  IN  IF P = {} THEN 0 ELSE CHOOSE i \in P : \A j \in P : i <= j

StripTrailingNumbering(s) ==
  IF TrailingNumberingPos(s) = 0 THEN s ELSE SubSeq(s, 1, TrailingNumberingPos(s) - 1)

\* re.search(r"(\d{8}_\d{6})", s).group(1), None when the search fails
DateTokenAt(s, i) == AllDigits(s, i, 8) /\ i + 14 <= Len(s) /\ Ch(s, i + 8) = "_" /\ AllDigits(s, i + 9, 6)

SearchDateToken(s) ==
  LET P == {i \in 1..Len(s) : DateTokenAt(s, i)}
  IN  IF P = {} THEN None
      ELSE LET i == CHOOSE i \in P : \A j \in P : i <= j IN SubSeq(s, i, i + 14)

\* -\w+$ or _\w+$ matches at s[i]: a separator and then word characters only,
\* at least one, up to the end of the string
WordSuffixAt(s, i) ==
  /\ i < Len(s)
  /\ Ch(s, i) \in {"-", "_"}
  /\ \A k \in (i + 1)..Len(s) : Ch(s, k) \in WordChars

\* re.sub(r"\(\d+\)|-\w+$|_\w+$", "", s), scanning from s[i]
RECURSIVE SubNumberingOrSuffix(_, _)
SubNumberingOrSuffix(s, i) ==
  IF i > Len(s) THEN ""
  ELSE IF NumberingAt(s, i) > 0 THEN SubNumberingOrSuffix(s, i + NumberingAt(s, i))
  ELSE IF WordSuffixAt(s, i) THEN ""
  ELSE Ch(s, i) \o SubNumberingOrSuffix(s, i + 1)

\* the condition of the k-th attempt, on the raw media stem, the normalized
\* media stem, the raw candidate stem and the normalized candidate stem
AttemptOn(k, base_name, normalized_base, json_stem, json_base) ==
  CASE k = 1 -> StartsWith(json_stem, base_name)
    [] k = 2 -> json_base = normalized_base
    [] k = 3 -> StripTrailingNumbering(json_base) = StripTrailingNumbering(normalized_base)
    [] k = 4 -> /\ SearchDateToken(normalized_base) # None
                /\ Contains(json_base, SearchDateToken(normalized_base))
    [] k = 5 -> SubNumberingOrSuffix(json_base, 1) = SubNumberingOrSuffix(normalized_base, 1)

\* the condition of the k-th attempt for one candidate
AttemptHolds(k, photo_path, json_file) ==
  \E base_name \in {Stem(photo_path.name)}, json_stem \in {Stem(json_file.name)} :
    \E normalized_base \in {normalize_filename(base_name)},
       json_base \in {normalize_filename(json_stem)} :
      AttemptOn(k, base_name, normalized_base, json_stem, json_base)

\* the raw and the normalized stem of every candidate from index i on
\* (json_file.stem and normalize_filename(json_file.stem) of the loops)
RECURSIVE CandidateStems(_, _)
CandidateStems(json_files, i) ==
  IF i > Len(json_files) THEN <<>>
  ELSE <<[stem |-> Stem(json_files[i].name),
          base |-> normalize_filename(Stem(json_files[i].name))]>>
       \o CandidateStems(json_files, i + 1)

\* one "for json_file in json_files" loop, from index i: the index of the
\* candidate it returns, 0 when the loop ends without returning
RECURSIVE AttemptLoop(_, _, _, _, _)
AttemptLoop(k, base_name, normalized_base, stems, i) ==
  IF i > Len(stems) THEN 0
  ELSE IF AttemptOn(k, base_name, normalized_base, stems[i].stem, stems[i].base) THEN i
  ELSE AttemptLoop(k, base_name, normalized_base, stems, i + 1)

\* a matcher that tries every attempt on one candidate before it moves on to
\* the next candidate
AttemptsByCandidate(k, base_name, normalized_base, stems) ==
  LET Holds(r, i) == AttemptOn(r, base_name, normalized_base, stems[i].stem, stems[i].base)
      Hit == {i \in 1..Len(stems) : \E r \in k..5 : Holds(r, i)}
  IN  IF Hit = {} THEN [attempt |-> 0, index |-> 0]
      ELSE LET i == CHOOSE i \in Hit : \A j \in Hit : i <= j
               R == {r \in k..5 : Holds(r, i)}
           IN  [attempt |-> CHOOSE r \in R : \A q \in R : r <= q, index |-> i]

\* the attempt whose loop returns and the index of the candidate returned;
\* attempt 0 and index 0 stand for the final "return None"
RECURSIVE AttemptsFrom(_, _, _, _)
AttemptsFrom(k, base_name, normalized_base, stems) ==
  IF k > 5 THEN [attempt |-> 0, index |-> 0]
  ELSE IF AttemptLoop(k, base_name, normalized_base, stems, 1) > 0
       THEN [attempt |-> k, index |-> AttemptLoop(k, base_name, normalized_base, stems, 1)]
  ELSE AttemptsFrom(k + 1, base_name, normalized_base, stems)

\* the return statement find_json_for_photo leaves by
Matched(photo_path, json_files) ==
  CHOOSE r \in {AttemptsFrom(1, base_name, normalized_base, stems) :
                  base_name \in {Stem(photo_path.name)},
                  normalized_base \in {normalize_filename(Stem(photo_path.name))},
                  stems \in {CandidateStems(json_files, 1)}} : TRUE

find_json_for_photo(photo_path, json_files) ==
  \* the index is bound once: r is an index of json_files, or 0 for None
  CHOOSE j \in {IF r = 0 THEN NoPath ELSE json_files[r] :
                  r \in {Matched(photo_path, json_files).index}} : TRUE

(***************************************************************************)
(* State.                                                                  *)
(***************************************************************************)
VARIABLES
  name,        \* normaliser: the name given to normalize_filename
  once,        \* normaliser: normalize_filename(name), None before the call
  twice,       \* normaliser: normalize_filename(once), None before the call
  photo_path,  \* matcher: the media path given to find_json_for_photo
  candidates,  \* matcher: the candidate list given to find_json_for_photo
  found,       \* matcher: whether the call was made, and what it returned
  fs,          \* the file system: the existing paths and their contents
  pc,          \* merger and archiver: the position in the run
  runs,        \* merger and archiver: the number of runs started
  listed,      \* merger: the file system as it was when the run listed it
  media_files, \* merger: the media paths the run iterates over
  json_files,  \* merger: the sidecar paths the run matches against
  cursor,      \* merger and archiver: index of the file being processed
  json_file,   \* merger: the sidecar matched to the current media file
  timestamp,   \* merger: photoTakenTime.timestamp of that sidecar
  log,         \* merger and archiver: the reports printed by the run
  now_year     \* archiver: datetime.now().year

pureVars == <<name, once, twice, photo_path, candidates, found>>
runVars ==
  <<fs, pc, runs, listed, media_files, json_files, cursor, json_file, timestamp, log, now_year>>
vars == <<pureVars, runVars>>

SRC == "Photos from 2015"
OUT == "output"

(***************************************************************************)
(* Bounds of the model.                                                    *)
(***************************************************************************)
MaxTokens == 3       \* tokens in a generated name
MaxCandidates == 2   \* length of a candidate list given to the matcher

\* the pieces generated names are made of
NameTokens ==
  {"IMG", "(1)", "(", "2", ")", "-edited", "_p", "_", ".", " ", "2019-03-14 10.20.30"}

RECURSIVE NamesUpTo(_)
NamesUpTo(n) ==
  IF n = 0 THEN {""}
  ELSE NamesUpTo(n - 1) \cup {s \o t : s \in NamesUpTo(n - 1), t \in NameTokens}

SampleNames == {"IMG(1)-edited.jpg", "IMG(1)-edited", "photo((1)2)", "IMG_20210615_a_p_"}

MatchMedia ==
  {"photo.jpg", "photo(1).jpg", "photo-edited.jpg", "photo((1)2).jpg",
   "20210615_143000.mp4", "IMG_20210615_a.jpg", "other.png"}

MatchSidecars ==
  {"photo.json", "photo.jpg.json", "photo(1).json", "photo_x.json",
   "VID_20210615_143000_export.json", "IMG_20220101_b.json"}

\* the sequences without repetition of at most n elements of S
RECURSIVE ListsUpTo(_, _)
ListsUpTo(S, n) ==
  IF n = 0 THEN {<<>>}
  ELSE ListsUpTo(S, n - 1)
       \cup {Append(l, x) : l \in {m \in ListsUpTo(S, n - 1) : Len(m) = n - 1},
                            x \in S}

Injective(l) == \A i, j \in 1..Len(l) : l[i] = l[j] => i = j

(***************************************************************************)
(* The normaliser applied to a name, and to its own result.                *)
(***************************************************************************)
NormaliserIdle == name = "" /\ once = None /\ twice = None
Pending == [done |-> FALSE, json_file |-> NoPath, attempt |-> 0]
MatcherIdle == photo_path = NoPath /\ candidates = <<>> /\ found = Pending

\* a value read from a JSON document: a string, an integer or nothing
JStr(t) == [type |-> "str", text |-> t]
JInt(t) == [type |-> "int", text |-> t]
JNull == [type |-> "null", text |-> ""]

EmptyFs == [p \in {} |-> 0]

RunIdle ==
  /\ fs = EmptyFs /\ listed = EmptyFs /\ pc = "idle" /\ runs = 0
  /\ media_files = <<>> /\ json_files = <<>> /\ cursor = 0
  /\ json_file = NoPath /\ timestamp = JNull /\ log = <<>> /\ now_year = 0

InitNormalize ==
  /\ name \in NamesUpTo(MaxTokens) \cup SampleNames
  /\ once = None
  /\ twice = None
  /\ MatcherIdle
  /\ RunIdle

Normalize ==
  /\ once = None
  /\ once' = normalize_filename(name)
  /\ UNCHANGED <<name, twice, photo_path, candidates, found, runVars>>

Renormalize ==
  /\ once # None
  /\ twice = None
  /\ twice' = normalize_filename(once)
  /\ UNCHANGED <<name, once, photo_path, candidates, found, runVars>>

NextNormalize == Normalize \/ Renormalize

SpecNormalize == InitNormalize /\ [][NextNormalize]_vars

(***************************************************************************)
(* The matcher applied to a media path and a candidate list.               *)
(***************************************************************************)
InitMatch ==
  /\ photo_path \in {Path(SRC, n) : n \in MatchMedia}
  /\ candidates \in {l \in ListsUpTo({Path(SRC, n) : n \in MatchSidecars}, MaxCandidates) :
                       Injective(l)}
  /\ found = Pending
  /\ NormaliserIdle
  /\ RunIdle

Match ==
  /\ ~found.done
  /\ found' = [done      |-> TRUE,
               json_file |-> find_json_for_photo(photo_path, candidates),
               attempt   |-> Matched(photo_path, candidates).attempt]
  /\ UNCHANGED <<name, once, twice, photo_path, candidates, runVars>>

NextMatch == Match

SpecMatch == InitMatch /\ [][NextMatch]_vars

(***************************************************************************)
(* main.py: process_photos_and_json, run as on the last line of main.py    *)
(* with photo_dir = json_dir = "Photos from 2015" and output_dir =         *)
(* "output".                                                               *)
(*                                                                         *)
(* A media file holds its image data, the format of that data and the      *)
(* DateTimeOriginal tag embedded in it; a sidecar holds whether it parses  *)
(* as JSON, photoTakenTime.timestamp and photoTakenTime.formatted.  The    *)
(* GPS tags written next to the date tags and the file times set by        *)
(* os.utime are left out of the file contents: no step of either program   *)
(* reads them back.                                                        *)
(***************************************************************************)
MaxRuns == 2   \* runs of the merger in one behaviour

Media(data, format, exif) == [kind |-> "media", data |-> data, format |-> format, exif |-> exif]
Sidecar(valid, ts, formatted) ==
  [kind |-> "json", valid |-> valid, timestamp |-> ts, formatted |-> formatted]

file_extensions == <<".jpg", ".png", ".gif", ".heic", ".mp4", ".mov", ".bmp">>

\* Path.glob("*" + ext) in directory dir of file system f
Glob(f, dir, ext) == {p \in DOMAIN f : p.dir = dir /\ EndsWith(p.name, ext)}

\* the orders in which a directory listing may yield the paths of S
Orders(S) == {l \in ListsUpTo(S, Cardinality(S)) : Len(l) = Cardinality(S) /\ Injective(l)}

\* the possible values of media_files: one glob per extension, in the order
\* of file_extensions, from extension k on
RECURSIVE MediaListings(_, _)
MediaListings(f, k) ==
  IF k > Len(file_extensions) THEN {<<>>}
  ELSE {a \o b : a \in Orders(Glob(f, SRC, file_extensions[k])), b \in MediaListings(f, k + 1)}

\* the possible values of json_files: the sidecars of the source directory,
\* then those of the output directory
JsonListings(f) ==
  {a \o b : a \in Orders(Glob(f, SRC, ".json")), b \in Orders(Glob(f, OUT, ".json"))}

\* truth value of a JSON value in "if timestamp:"
Truthy(v) ==
  \/ v.type = "str" /\ v.text # ""
  \/ v.type = "int" /\ v.text # "0"

\* f"{timestamp}_{media.name}"
NewName(ts, media) == ts.text \o "_" \o media.name

\* the file system after shutil.copy(src, dst)
CopyFile(f, src, dst) == [p \in DOMAIN f \cup {dst} |-> IF p = dst THEN f[src] ELSE f[p]]

\* the file system after os.remove(path)
RemoveFile(f, path) == [p \in DOMAIN f \ {path} |-> f[p]]

\* what lines 186-212 may leave of the copy of a media file: piexif.dump and
\* piexif.insert (not part of the sources) either write the date tags, which
\* then hold the formatted time of the sidecar, or raise, which line 211
\* catches and which leaves the copy as it was
EmbedTags(content, formatted) == {content, [content EXCEPT !.exif = formatted]}

Report(kind, media, json, ts) == [kind |-> kind, media |-> media, json_file |-> json, timestamp |-> ts]

\* where a run goes after the file at cursor
NextFile ==
  /\ cursor' = cursor + 1
  /\ pc' = IF cursor + 1 > Len(media_files) THEN "done" ELSE "match"
  /\ json_file' = NoPath
  /\ timestamp' = JNull

\* lines 129-138: list the media of the source and the sidecars of both
\* directories
ListFiles ==
  /\ pc \in {"idle", "done"}
  /\ runs < MaxRuns
  /\ runs' = runs + 1
  /\ listed' = fs
  /\ media_files' \in MediaListings(fs, 1)
  /\ json_files' \in JsonListings(fs)
  /\ cursor' = 1
  /\ pc' = IF media_files' = <<>> THEN "done" ELSE "match"
  /\ json_file' = NoPath
  /\ timestamp' = JNull
  /\ log' = <<>>
  /\ UNCHANGED <<fs, now_year, pureVars>>

\* a merger that does not test the timestamp
AnyTimestamp(ts) == TRUE

\* the test of line 177 that lets the copy and the deletion go ahead
HasTimestamp(ts) == Truthy(ts)

\* lines 142-177 and 225-230: match the sidecar, read its timestamp
MatchSidecar ==
  /\ pc = "match"
  /\ \E media \in {media_files[cursor]} :
       \E j \in {find_json_for_photo(media, json_files)} :
         IF j # NoPath /\ j \in DOMAIN fs
         THEN IF ~fs[j].valid
              THEN /\ log' = Append(log, Report("error", media, j, JNull))
                   /\ NextFile
              ELSE IF HasTimestamp(fs[j].timestamp)
              THEN /\ json_file' = j
                   /\ timestamp' = fs[j].timestamp
                   /\ pc' = "copy_media"
                   /\ UNCHANGED <<cursor, log>>
              ELSE /\ log' = Append(log, Report("missing_timestamp", media, j, fs[j].timestamp))
                   /\ NextFile
         ELSE /\ log' = Append(log, Report("no_json", media, j, JNull))
              /\ NextFile
  /\ UNCHANGED <<fs, runs, listed, media_files, json_files, now_year, pureVars>>

\* lines 178-212: copy the media file under its new name, embed the tags
CopyMedia ==
  /\ pc = "copy_media"
  /\ LET media == media_files[cursor]
         new   == Path(OUT, NewName(timestamp, media))
         f1    == CopyFile(fs, media, new)
     IN  IF Lower(Suffix(media.name)) \in {".jpg", ".jpeg"}
         THEN \E tagged \in EmbedTags(f1[new], fs[json_file].formatted) :
                fs' = [f1 EXCEPT ![new] = tagged]
         ELSE fs' = f1
  /\ pc' = "copy_json"
  /\ UNCHANGED <<runs, listed, media_files, json_files, cursor, json_file, timestamp, log,
                 now_year, pureVars>>

\* line 215: copy the sidecar; shutil.copy raises SameFileError when the
\* sidecar already is the file it would be copied to
CopyJson ==
  /\ pc = "copy_json"
  /\ LET media == media_files[cursor]
         dst   == Path(OUT, NewName(timestamp, media) \o ".json")
     IN  IF json_file = dst
         THEN /\ log' = Append(log, Report("error", media, json_file, timestamp))
              /\ NextFile
              /\ UNCHANGED fs
         ELSE /\ fs' = CopyFile(fs, json_file, dst)
              /\ pc' = "remove_media"
              /\ UNCHANGED <<cursor, json_file, timestamp, log>>
  /\ UNCHANGED <<runs, listed, media_files, json_files, now_year, pureVars>>

\* line 218
RemoveMedia ==
  /\ pc = "remove_media"
  /\ fs' = RemoveFile(fs, media_files[cursor])
  /\ pc' = "remove_json"
  /\ UNCHANGED <<runs, listed, media_files, json_files, cursor, json_file, timestamp, log,
                 now_year, pureVars>>

\* a merger that deletes the matched sidecar wherever it is
InAnyDirectory(path) == TRUE

\* the test of line 219
InSourceDirectory(path) == path.dir = SRC

\* lines 219-224
RemoveJson ==
  /\ pc = "remove_json"
  /\ fs' = IF InSourceDirectory(json_file) THEN RemoveFile(fs, json_file) ELSE fs
  /\ log' = Append(log, Report("processed", media_files[cursor], json_file, timestamp))
  /\ NextFile
  /\ UNCHANGED <<runs, listed, media_files, json_files, now_year, pureVars>>

(***************************************************************************)
(* The directories a merger run may start from.                            *)
(***************************************************************************)
TsA == "1623767400"
TsB == "1000000000"

MergeMedia ==
  {"IMG_20210615_143000.jpg", "IMG_20210615_143000-edited.jpg", "clip.mp4"}

SourceSidecars == {"IMG_20210615_143000.jpg.json", "clip.mp4.json"}

OutputSidecars == {"1623767400_IMG_20210615_143000.jpg.json"}

SidecarContents ==
  {Sidecar(TRUE, JStr(TsA), "Jun 15, 2021, 2:30:00 PM UTC"),
   Sidecar(TRUE, JStr(TsB), "Sep 9, 2001, 1:46:40 AM UTC"),
   Sidecar(TRUE, JNull, ""),
   Sidecar(FALSE, JNull, "")}

MediaContent(n) == Media(n, IF Suffix(n) = ".jpg" THEN "JPEG" ELSE "MP4", None)

\* the file systems with the media files M in the source, and sidecars with
\* any contents under the names S of the source and T of the output
FileSystems(M, S, T) ==
  LET MP == {Path(SRC, n) : n \in M}
      JP == {Path(SRC, n) : n \in S} \cup {Path(OUT, n) : n \in T}
  IN  {[p \in MP \cup JP |-> IF p \in MP THEN MediaContent(p.name) ELSE c[p]] :
         c \in [JP -> SidecarContents]}

InitMerge ==
  /\ \E M \in SUBSET MergeMedia, S \in SUBSET SourceSidecars, T \in SUBSET OutputSidecars :
       fs \in FileSystems(M, S, T)
  /\ listed = EmptyFs /\ pc = "idle" /\ runs = 0
  /\ media_files = <<>> /\ json_files = <<>> /\ cursor = 0
  /\ json_file = NoPath /\ timestamp = JNull /\ log = <<>> /\ now_year = 0
  /\ NormaliserIdle
  /\ MatcherIdle

Next == ListFiles \/ MatchSidecar \/ CopyMedia \/ CopyJson \/ RemoveMedia \/ RemoveJson

Spec == InitMerge /\ [][Next]_vars

(***************************************************************************)
(* datetime: the calendar, strptime and fromtimestamp.                     *)
(* A date is its year, month and day; the time of day is parsed and then   *)
(* dropped, no step reads it.  NoDate stands for None.                     *)
(***************************************************************************)
Date(y, m, d) == [year |-> y, month |-> m, day |-> d]
NoDate == Date(0, 0, 0)

IsLeap(y) == (y % 4 = 0 /\ y % 100 # 0) \/ y % 400 = 0

DaysInMonth(y, m) ==
  IF m = 2 THEN (IF IsLeap(y) THEN 29 ELSE 28)
  ELSE IF m \in {4, 6, 9, 11} THEN 30 ELSE 31

\* the dates datetime(y, m, d) accepts
ValidDate(y, m, d) ==
  y \in 1..9999 /\ m \in 1..12 /\ d >= 1 /\ d <= DaysInMonth(y, m)

\* datetime.strptime(s, '%Y%m%d') of a string of 8 digits, NoDate for
\* ValueError: the directives take the digits 4-2-2, a month of "00" or a day
\* of "00" leaves data unconverted
ParseYmd(s) ==
  LET y == ToInt(SubSeq(s, 1, 4))
      m == ToInt(SubSeq(s, 5, 6))
      d == ToInt(SubSeq(s, 7, 8))
  IN  IF m \in 1..12 /\ d \in 1..31 /\ ValidDate(y, m, d) THEN Date(y, m, d) ELSE NoDate

\* one numeric directive of strptime at s[i]: a run of one or two digits with
\* a value from lo to hi; a one-digit run below min1 does not match (%m and
\* %d take no single "0").  The value, -1 when the directive does not match,
\* and the index after the run
Directive(s, i, lo, hi, min1) ==
  LET n == RunLen(s, i, Digits)
      v == IF n \in {1, 2} THEN ToInt(SubSeq(s, i, i + n - 1)) ELSE -1
  IN  [value |-> IF n \in {1, 2} /\ v >= lo /\ v <= hi /\ (n = 1 => v >= min1) THEN v ELSE -1,
       next  |-> i + n]

Literal(s, i, c) == i <= Len(s) /\ Ch(s, i) = c

\* the five numeric directives of '%Y:%m:%d %H:%M:%S' after the year, each
\* with the literal that has to follow it ("" for the end of the string, " "
\* for a run of blanks)
ExifDirectives ==
  <<[lo |-> 1, hi |-> 12, min1 |-> 1, then |-> ":"],
    [lo |-> 1, hi |-> 31, min1 |-> 1, then |-> " "],
    [lo |-> 0, hi |-> 23, min1 |-> 0, then |-> ":"],
    [lo |-> 0, hi |-> 59, min1 |-> 0, then |-> ":"],
    [lo |-> 0, hi |-> 59, min1 |-> 0, then |-> ""]>>

\* the values of the directives k.. matched from s[i] on, <<-1>> when the
\* string does not match the format
RECURSIVE MatchDirectives(_, _, _)
MatchDirectives(s, i, k) ==
  IF k > Len(ExifDirectives) THEN <<>>
  ELSE LET f    == ExifDirectives[k]
           d    == Directive(s, i, f.lo, f.hi, f.min1)
           skip == IF f.then = ":" THEN (IF Literal(s, d.next, ":") THEN 1 ELSE 0)
                   ELSE IF f.then = " " THEN RunLen(s, d.next, SpaceChars)
                   ELSE (IF d.next = Len(s) + 1 THEN 1 ELSE 0)
       IN  IF d.value < 0 \/ skip = 0 THEN <<-1>>
           ELSE <<d.value>> \o MatchDirectives(s, d.next + skip, k + 1)

\* datetime.strptime(s, '%Y:%m:%d %H:%M:%S'), NoDate for ValueError
ParseExifDate(s) ==
  IF ~(AllDigits(s, 1, 4) /\ Literal(s, 5, ":")) THEN NoDate
  ELSE LET v == MatchDirectives(s, 6, 1)
           y == ToInt(SubSeq(s, 1, 4))
       IN  IF Len(v) = 5 /\ v[5] >= 0 /\ ValidDate(y, v[1], v[2]) THEN Date(y, v[1], v[2])
           ELSE NoDate

\* the text of a JSON value is a decimal literal int() accepts
IsIntLiteral(t) ==
  LET first == IF Len(t) > 0 /\ Ch(t, 1) = "-" THEN 2 ELSE 1
  IN  first <= Len(t) /\ RunLen(t, first, Digits) = Len(t) - first + 1

\* int(t) // 86400 of the decimal digits t[i..]: the whole days in a count
\* of seconds, by long division (the seconds of the years before 1902 and
\* after 2038 do not fit the integers of the checker, the days do)
RECURSIVE DaysByDivision(_, _, _, _)
DaysByDivision(t, i, quotient, remainder) ==
  IF i > Len(t) THEN [days |-> quotient, seconds |-> remainder]
  ELSE LET r == 10 * remainder + ToInt(Ch(t, i))
       IN  DaysByDivision(t, i + 1, 10 * quotient + (r \div 86400), r % 86400)

\* the whole days since 1970-01-01 of the timestamp t, rounded down
EpochDays(t) ==
  IF Ch(t, 1) = "-"
  THEN LET q == DaysByDivision(t, 2, 0, 0)
       IN  IF q.seconds = 0 THEN 0 - q.days ELSE 0 - q.days - 1
  ELSE DaysByDivision(t, 1, 0, 0).days

\* the civil date of a day count since 1970-01-01
CivilFromDays(days) ==
  LET z   == days + 719468
      era == z \div 146097
      doe == z - era * 146097
      yoe == (doe - (doe \div 1460) + (doe \div 36524) - (doe \div 146096)) \div 365
      doy == doe - (365 * yoe + (yoe \div 4) - (yoe \div 100))
      mp  == (5 * doy + 2) \div 153
      d   == doy - ((153 * mp + 2) \div 5) + 1
      m   == IF mp < 10 THEN mp + 3 ELSE mp - 9
      y   == yoe + era * 400 + (IF m <= 2 THEN 1 ELSE 0)
  IN  Date(y, m, d)

\* datetime.fromtimestamp(int(timestamp)) of a JSON value, in UTC; NoDate
\* when int() or fromtimestamp raises (a text that is no number, a year
\* outside 1..9999)
FromTimestamp(ts) ==
  IF ~IsIntLiteral(ts.text) \/ Len(ts.text) > 12 THEN NoDate
  ELSE LET date == CivilFromDays(EpochDays(ts.text))
       IN  IF date.year \in 1..9999 THEN date ELSE NoDate

(***************************************************************************)
(* arrange_photo.py: get_date_from_filename, get_date_from_json,           *)
(* get_date_taken                                                          *)
(***************************************************************************)
\* a date accepted whatever its year
AnyYear(date, now) == TRUE

\* the validation "1900 <= date.year <= datetime.now().year"
Reasonable(date, now) == 1900 <= date.year /\ date.year <= now

\* re.search(r'(\d{8})', filename).group(1), None when the search fails
SearchEightDigits(filename) ==
  LET P == {i \in 1..Len(filename) : AllDigits(filename, i, 8)}
  IN  IF P = {} THEN None
      ELSE LET i == CHOOSE i \in P : \A j \in P : i <= j IN SubSeq(filename, i, i + 7)

\* the date the filename holds, whatever its year
FilenameDate(filename) ==
  LET date_str == SearchEightDigits(filename)
  IN  IF date_str = None THEN NoDate ELSE ParseYmd(date_str)

get_date_from_filename(filename, now) ==
  LET date == FilenameDate(filename)
  IN  IF date # NoDate /\ Reasonable(date, now) THEN date ELSE NoDate

\* re.sub(r'^\d+_', '', name)
StripTimestampPrefix(n) ==
  LET k == RunLen(n, 1, Digits)
  IN  IF k > 0 /\ Literal(n, k + 1, "_") THEN From(n, k + 2) ELSE n

\* possible_json_extensions, in the order the loop tries them
JsonCandidates(image_path) ==
  LET n == image_path.name
      o == StripTimestampPrefix(image_path.name)
  IN
    <<Path(image_path.dir, WithSuffix(n, ".jpg.json")),
      Path(image_path.dir, WithSuffix(n, ".jpeg.json")),
      Path(image_path.dir, WithSuffix(n, ".png.json")),
      Path(image_path.dir, WithSuffix(n, ".gif.json")),
      Path(image_path.dir, WithSuffix(n, ".mp4.json")),
      Path(image_path.dir, WithSuffix(n, ".bmp.json")),
      Path(image_path.dir, WithSuffix(n, ".json")),
      Path(image_path.dir, WithSuffix(o, ".json")),
      Path(image_path.dir, WithSuffix(o, ".bmp.json"))>>

\* the date the sidecar at json_path holds, whatever its year: NoDate when the
\* file does not exist, does not parse, has no timestamp, or the conversion
\* raises
SidecarDate(f, json_path) ==
  IF json_path \notin DOMAIN f THEN NoDate
  ELSE IF f[json_path].kind # "json" THEN NoDate
  ELSE IF ~f[json_path].valid THEN NoDate
  ELSE IF ~Truthy(f[json_path].timestamp) THEN NoDate
  ELSE FromTimestamp(f[json_path].timestamp)

\* the loop of lines 46-59 from candidate i on
RECURSIVE JsonLoop(_, _, _, _)
JsonLoop(f, paths, i, now) ==
  IF i > Len(paths) THEN NoDate
  ELSE LET date == SidecarDate(f, paths[i])
       IN  IF date # NoDate /\ Reasonable(date, now) THEN date
           ELSE JsonLoop(f, paths, i + 1, now)

get_date_from_json(f, image_path, now) == JsonLoop(f, JsonCandidates(image_path), 1, now)

\* the DateTimeOriginal that lines 65-73 read, whatever its year: only the
\* formats of line 67 are asked for their tags; Image.open raising, no tags,
\* no DateTimeOriginal and strptime raising all give NoDate.  (TIFF data is
\* not among the contents of the model.)
EmbeddedDate(content) ==
  IF content.format \notin {"JPEG", "TIFF"} THEN NoDate
  ELSE IF content.exif = None THEN NoDate
  ELSE ParseExifDate(content.exif)

get_date_taken(f, image_path, now) ==
  LET date      == EmbeddedDate(f[image_path])
      json_date == get_date_from_json(f, image_path, now)
  IN  IF date # NoDate /\ Reasonable(date, now) THEN date
      ELSE IF json_date # NoDate THEN json_date
      ELSE get_date_from_filename(image_path.name, now)

(***************************************************************************)
(* arrange_photo.py: create_date_folders, run on the directory "output".    *)
(* The year and month folders are the directory parts of the paths; a       *)
(* folder exists as soon as the run has made it, mkdir(exist_ok=True).      *)
(***************************************************************************)
supported_extensions == {".jpg", ".jpeg", ".png", ".gif", ".bmp", ".tiff", ".webp", ".mp4"}

\* f"{month:02d}"
TwoDigits(n) == IF n < 10 THEN "0" \o ToStr(n) ELSE ToStr(n)

\* output_dir / str(date_taken.year) / f"{date_taken.month:02d}"
MonthFolder(date) == OUT \o "/" \o ToStr(date.year) \o "/" \o TwoDigits(date.month)

\* the file system after shutil.move(src, dst) with dst the full path of the
\* target: os.rename puts src in the place of whatever file is at dst; where
\* os.rename refuses an existing target, shutil.move copies src over it and
\* unlinks src.  Either way dst holds the content of src afterwards.
MoveFile(f, src, dst) ==
  [p \in (DOMAIN f \ {src}) \cup {dst} |-> IF p = dst THEN f[src] ELSE f[p]]

\* the files of the flat output directory the loop of line 101 does not skip
Supported(f) ==
  {p \in DOMAIN f : p.dir = OUT /\ Lower(Suffix(p.name)) \in supported_extensions}

Archived(kind, file, date) == [kind |-> kind, file |-> file, date |-> date]

\* lines 90-105: list the output directory, skip the JSON files and the
\* files with an unsupported extension
ListOutput ==
  /\ pc \in {"idle", "done"}
  /\ runs < MaxRuns
  /\ runs' = runs + 1
  /\ listed' = fs
  /\ media_files' \in Orders(Supported(fs))
  /\ cursor' = 1
  /\ pc' = IF media_files' = <<>> THEN "done" ELSE "archive"
  /\ log' = <<>>
  /\ UNCHANGED <<fs, json_files, json_file, timestamp, now_year, pureVars>>

\* lines 108-126: resolve the date of the file at cursor, move the file into
\* the folder of its month or report it as unresolved
ArchiveFile ==
  /\ pc = "archive"
  /\ \E file_path \in {media_files[cursor]} :
       \E date_taken \in {get_date_taken(fs, file_path, now_year)} :
         IF date_taken # NoDate
         THEN /\ fs' = MoveFile(fs, file_path, Path(MonthFolder(date_taken), file_path.name))
              /\ log' = Append(log, Archived("moved", file_path, date_taken))
         ELSE /\ fs' = fs
              /\ log' = Append(log, Archived("unresolved", file_path, NoDate))
  /\ cursor' = cursor + 1
  /\ pc' = IF cursor + 1 > Len(media_files) THEN "done" ELSE "archive"
  /\ UNCHANGED <<runs, listed, media_files, json_files, json_file, timestamp, now_year,
                 pureVars>>

(***************************************************************************)
(* The directories an archiver run may start from: the output of merger     *)
(* runs, some of it filed by an earlier archiver run.                       *)
(***************************************************************************)
Ts2019 == "1552558500"    \* 2019-03-14 10:15:00 UTC
Ts1850 == "-3772483200"   \* 1850-06-16 00:00:00 UTC
Ts2031 == "1939000000"    \* 2031-06-12 03:06:40 UTC

Photo == "1552558500_photo.jpg"
Scan == "IMG_20190314.PNG"

\* the DateTimeOriginal tags the photo may carry
PhotoTags ==
  {None, "2019:03:14 10:00:00", "1850:06:15 12:00:00", "2031:06:15 12:00:00",
   "2019-03-14 10:00:00"}

\* a sidecar with the timestamp ts
Timed(ts) == Sidecar(TRUE, ts, "")

\* the union of two file systems with disjoint paths
Merge(f, g) == [p \in DOMAIN f \cup DOMAIN g |-> IF p \in DOMAIN f THEN f[p] ELSE g[p]]

\* the file systems that hold nothing, or one of the contents at the path
Optional(path, contents) == {EmptyFs} \cup [{path} -> contents]

\* the sidecars that may lie next to the photo and to the scan
PhotoSidecars ==
  {Merge(a, b) :
     a \in Optional(Path(OUT, "1552558500_photo.jpg.json"),
                    {Timed(JStr(TsB)), Timed(JStr(Ts1850)), Timed(JInt(Ts2031)),
                     Timed(JStr("soon")), Timed(JNull), Sidecar(FALSE, JNull, "")}),
     b \in Optional(Path(OUT, "photo.json"), {Timed(JStr(Ts2019)), Timed(JStr(Ts1850))})}

ScanSidecars ==
  Optional(Path(OUT, "IMG_20190314.json"),
           {Timed(JStr(TsB)), Timed(JStr(Ts1850)), Timed(JStr(Ts2031))})

\* the photo with its tags and the scan in the flat directory
FlatMedia ==
  {Merge(a, b) :
     a \in Optional(Path(OUT, Photo), {Media("new", "JPEG", tags) : tags \in PhotoTags}),
     b \in Optional(Path(OUT, Scan), {Media("new", "PNG", None)})}

\* files of the same names filed under 2019/03 already
FiledMedia ==
  {Merge(a, b) :
     a \in Optional(Path(OUT \o "/2019/03", Photo), {Media("old", "JPEG", None)}),
     b \in Optional(Path(OUT \o "/2019/03", Scan), {Media("old", "PNG", None)})}

InitArchive ==
  /\ \E m \in FlatMedia, t \in FiledMedia, a \in PhotoSidecars, b \in ScanSidecars :
       fs = Merge(Merge(m, t), Merge(a, b))
  /\ now_year \in {2026, 2031}
  /\ listed = EmptyFs /\ pc = "idle" /\ runs = 0
  /\ media_files = <<>> /\ json_files = <<>> /\ cursor = 0
  /\ json_file = NoPath /\ timestamp = JNull /\ log = <<>>
  /\ NormaliserIdle
  /\ MatcherIdle

NextArchive == ListOutput \/ ArchiveFile

SpecArchive == InitArchive /\ [][NextArchive]_vars

(***************************************************************************)
(* Properties of the normaliser (SpecNormalize).                           *)
(***************************************************************************)
\* C3: normalize_filename is idempotent: normalising the result of
\* normalize_filename once more gives the same name.
C3_Idempotent == twice # None => twice = once

\* C4: the result of normalize_filename("IMG(1)-edited.jpg") contains neither
\* "(1)" nor "-edited".
C4_DropsNumberingAndEdited ==
  (name = "IMG(1)-edited.jpg" /\ once # None) =>
    ~Contains(once, "(1)") /\ ~Contains(once, "-edited")

(***************************************************************************)
(* Properties of the matcher (SpecMatch).                                  *)
(***************************************************************************)
\* the candidates of the list that satisfy attempt k for the media path
C1_Satisfying(k) ==
  {i \in 1..Len(candidates) : AttemptHolds(k, photo_path, candidates[i])}

\* C1: the sidecar returned is the first candidate, in list order, that
\* satisfies the lowest-numbered rule any candidate satisfies; the result is
\* none exactly when no candidate satisfies any of the five rules.
C1_FirstCandidateOfLowestRule ==
  found.done =>
    LET K == {k \in 1..5 : C1_Satisfying(k) # {}}
    IN  IF K = {} THEN found.json_file = NoPath
        ELSE \E k \in K : \E i \in C1_Satisfying(k) :
               /\ \A k2 \in K : k <= k2
               /\ \A i2 \in C1_Satisfying(k) : i <= i2
               /\ found.json_file = candidates[i]
               /\ found.json_file # NoPath

\* a call that returned the second candidate although the first one satisfies
\* a later rule
C1_Witness ==
  /\ found.done
  /\ Len(candidates) = 2
  /\ found.json_file = candidates[2]
  /\ \E k \in 1..5 : AttemptHolds(k, photo_path, candidates[1])

\* the calls C5 is about: one candidate, and the stems "photo(1)" and "photo",
\* one on each side
C5_Case ==
  /\ found.done
  /\ Len(candidates) = 1
  /\ \/ Stem(photo_path.name) = "photo(1)" /\ Stem(candidates[1].name) = "photo"
     \/ Stem(photo_path.name) = "photo" /\ Stem(candidates[1].name) = "photo(1)"

\* C5 as stated: for the stems "photo(1)" and "photo" the match is found at
\* rule 3, rules 1 and 2 failing.
C5_MatchAtRuleThree == C5_Case => found.json_file = candidates[1] /\ found.attempt = 3

\* C5 as amended: for the stems "photo(1)" and "photo" the match is found,
\* at rule 2 when "photo(1)" is the media stem (rule 1 fails, and the
\* normaliser has removed the "(1)" already), at rule 1 when "photo" is.
C5_MatchAtRuleOneOrTwo ==
  C5_Case =>
    /\ found.json_file = candidates[1]
    /\ found.attempt = IF Stem(photo_path.name) = "photo(1)" THEN 2 ELSE 1
    /\ Stem(photo_path.name) = "photo(1)" => ~AttemptHolds(1, photo_path, candidates[1])

C5_Witness ==
  /\ C5_Case
  /\ Stem(photo_path.name) = "photo(1)"
  /\ found.attempt = 2

\* C10's reading of rule 5: the "(n)" groups and the last hyphen- or
\* underscore-delimited word of s[i..] removed
RECURSIVE C10_StripLastWord(_, _)
C10_StripLastWord(s, i) ==
  IF i > Len(s) THEN ""
  ELSE IF NumberingAt(s, i) > 0 THEN C10_StripLastWord(s, i + NumberingAt(s, i))
  ELSE IF /\ i < Len(s)
          /\ Ch(s, i) \in {"-", "_"}
          /\ \A k \in (i + 1)..Len(s) : Ch(s, k) \in WordChars \ {"_"}
       THEN ""
  ELSE Ch(s, i) \o C10_StripLastWord(s, i + 1)

\* C10: rule 5 matches two stems only when they are equal after the "(n)"
\* groups and the single trailing "-word" or "_word" of each normalized stem
\* are removed; "IMG_20210615_a" and "IMG_20220101_b" are not matched by it.
C10_RuleFiveStripsOneWord ==
  (found.done /\ found.attempt = 5) =>
    \E a \in {normalize_filename(Stem(photo_path.name))},
       b \in {normalize_filename(Stem(found.json_file.name))} :
      C10_StripLastWord(a, 1) = C10_StripLastWord(b, 1)

(***************************************************************************)
(* Properties of the merger (Spec).                                        *)
(***************************************************************************)
\* the sidecar and the timestamp the run paired with its k-th media file: the
\* ones it reported, or the ones it holds while it works on that file
C6_Pairing(k) ==
  IF k <= Len(log) THEN [json_file |-> log[k].json_file, timestamp |-> log[k].timestamp]
  ELSE [json_file |-> json_file, timestamp |-> timestamp]

\* C6: a media file is gone from the source only when a sidecar was matched
\* for it, that sidecar supplied a timestamp, and the renamed media copy and
\* the sidecar copy exist in the output directory; a media file with no
\* matching sidecar, or whose sidecar has no timestamp, is still in the source
\* as it was and has no copy in the output directory.
C6_DeletedOnlyAfterPairing ==
  \A k \in 1..Len(media_files) :
    \E media \in {media_files[k]} : \E j \in {find_json_for_photo(media, json_files)} :
      /\ media \notin DOMAIN fs =>
           /\ j # NoPath
           /\ C6_Pairing(k).json_file = j
           /\ Truthy(C6_Pairing(k).timestamp)
           /\ \E new \in {Path(OUT, NewName(C6_Pairing(k).timestamp, media))} :
                /\ new \in DOMAIN fs
                /\ fs[new].kind = "media"
                /\ fs[new].data = listed[media].data
                /\ Path(OUT, new.name \o ".json") \in DOMAIN fs
                /\ fs[Path(OUT, new.name \o ".json")].kind = "json"
      /\ (j = NoPath \/ (listed[j].valid /\ ~Truthy(listed[j].timestamp))) =>
           /\ media \in DOMAIN fs
           /\ fs[media] = listed[media]
           /\ \A p \in DOMAIN fs :
                (p.dir = OUT /\ EndsWith(p.name, "_" \o media.name)) =>
                  p \in DOMAIN listed /\ fs[p] = listed[p]

\* the end of a run that deleted one media file and skipped another one
C6_Witness ==
  /\ pc = "done"
  /\ \E k \in 1..Len(media_files) : media_files[k] \notin DOMAIN fs
  /\ \E k \in 1..Len(media_files) :
       /\ log[k].kind \in {"no_json", "missing_timestamp"}
       /\ media_files[k] \in DOMAIN fs

\* C7: no step of any run deletes a JSON file of the output directory: the
\* matched sidecar is deleted only when it is in the source directory.
C7_OutputSidecarsKept ==
  [][\A p \in DOMAIN fs : (p.dir = OUT /\ Suffix(p.name) = ".json") => p \in DOMAIN fs']_vars

\* a media file was paired with a sidecar of the output directory, processed
\* and deleted, and that sidecar is still there
C7_Witness ==
  \E k \in 1..Len(log) :
    /\ log[k].kind = "processed"
    /\ log[k].json_file.dir = OUT
    /\ log[k].json_file \in DOMAIN fs
    /\ log[k].media \notin DOMAIN fs

\* C9: at the end of a run, every media file of the source for which the
\* matcher selects a sidecar that carries a timestamp has its copy
\* <timestamp>_<name> in the output directory.
C9_EveryPairedMediaCopied ==
  pc = "done" =>
    \A k \in 1..Len(media_files) :
      \E media \in {media_files[k]} : \E j \in {find_json_for_photo(media, json_files)} :
        (j # NoPath /\ listed[j].valid /\ Truthy(listed[j].timestamp)) =>
          Path(OUT, NewName(listed[j].timestamp, media)) \in DOMAIN fs

(***************************************************************************)
(* Properties of the archiver (SpecArchive).                               *)
(***************************************************************************)
\* the dates the sources of a file hold in file system f, whatever their
\* year, in rank order: the embedded tag, the candidate sidecars, the filename
C2_Sources(f, file) ==
  <<EmbeddedDate(f[file])>>
  \o [i \in 1..Len(JsonCandidates(file)) |-> SidecarDate(f, JsonCandidates(file)[i])]
  \o <<FilenameDate(file.name)>>

C2_InRange(date) == date # NoDate /\ 1900 <= date.year /\ date.year <= now_year

C8_NeverOverwrites ==
  [][\A p \in DOMAIN fs : p.dir # OUT => (p \in DOMAIN fs' /\ fs'[p] = fs[p])]_vars

====
